---- MODULE Spec2Model ----
(***************************************************************************)
(* State-machine model of the ML-e2e-challenge command line (src/cli/main) *)
(* and of the data helpers (src/utils/data_functions).                     *)
(*                                                                         *)
(*   Spec          one run of a CLI command: train, validation, test,      *)
(*                 run-sql.  Collaborator calls are recorded in callLog.   *)
(*   SpecData      preprocess_features / preprocess_data / load_data       *)
(*                 applied to a bounded DataFrame held in a heap.          *)
(*   SpecPipeline  the PipelineBuilding helpers exercised by the tests.    *)
(***************************************************************************)
EXTENDS Integers, Sequences, FiniteSets, TLC

VARIABLES
    cmd,        \* the CLI command being run
    pc,         \* position inside the command's handler
    threshold,  \* --acc-threshold option (None when not supplied)
    model,      \* --model option: list of model names
    coverage,   \* --coverage flag of the test command
    fileExists, \* os.path.exists(sql_file)
    score,      \* value returned by validation_model.validate()
    callLog,    \* collaborator calls made so far, in order
    outcome,    \* how the command ended: running/ok/abort/exit/raised
    heap,       \* DataFrame objects by reference
    given,      \* the caller's DataFrame as it was when passed in
    ret,        \* result of the data function that was called
    pipe        \* inputs and result of the PipelineBuilding helper

vars == <<cmd, pc, threshold, model, coverage, fileExists, score, callLog,
          outcome, heap, given, ret, pipe>>

cliVars == <<cmd, pc, threshold, model, coverage, fileExists, score, callLog,
             outcome>>
dataVars == <<heap, given, ret>>

----------------------------------------------------------------------------
(* Bounds *)

\* Floats are modelled as multiples of 1/Unit: Unit is the float 1.0.
Unit == 2
\* Longest --model list.
MaxModels == 2
\* Most rows of a DataFrame.
MaxRows == 2
\* Largest SibSp / Parch value.
MaxCount == 1
\* Most rows of a categorical sample frame.
MaxCatRows == 3
\* Longest categorical_features list.
MaxFeatures == 2

----------------------------------------------------------------------------
(* Python floats: None, NaN, or a number (a multiple of 1/Unit). *)

None == [kind |-> "none", val |-> 0]
NaN == [kind |-> "nan", val |-> 0]
Num(k) == [kind |-> "num", val |-> k]

\* float comparison: any comparison with NaN is False
Le(a, b) == a.kind = "num" /\ b.kind = "num" /\ a.val <= b.val
Lt(a, b) == a.kind = "num" /\ b.kind = "num" /\ a.val < b.val

Thresholds == {None, NaN} \cup {Num(k) : k \in -1 .. Unit + 1}
Scores == {NaN} \cup {Num(k) : k \in 0 .. Unit}

\* model_type_list: names taken from Configs().models
ModelType == {"random_forest", "logistic_regression"}
ModelLists == UNION {[1 .. n -> ModelType] : n \in 0 .. MaxModels}

Commands == {"train", "validation", "test", "run-sql"}

Call(op, arg, ok) == [op |-> op, arg |-> arg, ok |-> ok]

\* `0 <= threshold <= 1`
ThresholdInRange_NoUpper(t) == Le(Num(0), t)
ThresholdInRange(t) == Le(Num(0), t) /\ Le(t, Num(Unit))

\* `score < threshold`
NeedsRetrain_OrEqual(s, t) == Le(s, t)
NeedsRetrain(s, t) == Lt(s, t)

Finish(how) == pc' = "done" /\ outcome' = how

----------------------------------------------------------------------------
(* train *)

train ==
    /\ cmd = "train" /\ pc = "start"
    /\ IF threshold = None
       THEN \E ok \in BOOLEAN :
              /\ callLog' = Append(callLog, Call("train", "no_threshold", ok))
              /\ Finish(IF ok THEN "ok" ELSE "raised")
       ELSE IF ThresholdInRange(threshold)
       THEN \E ok \in BOOLEAN :
              /\ callLog' = Append(callLog, Call("train", "threshold", ok))
              /\ Finish(IF ok THEN "ok" ELSE "raised")
       ELSE /\ callLog' = Append(callLog, Call("echo", "invalid_input", TRUE))
            /\ Finish("abort")
    /\ UNCHANGED <<cmd, threshold, model, coverage, fileExists, score>>
    /\ UNCHANGED <<dataVars, pipe>>

----------------------------------------------------------------------------
(* validation *)

\* score = validation_model.validate()
validation_validate ==
    /\ cmd = "validation" /\ pc = "start"
    /\ \/ \E s \in Scores :
            /\ score' = s
            /\ callLog' = Append(callLog, Call("validate", "", TRUE))
            /\ pc' = "check" /\ outcome' = outcome
       \/ /\ callLog' = Append(callLog, Call("validate", "", FALSE))
          /\ Finish("raised")
          /\ score' = score
    /\ UNCHANGED <<cmd, threshold, model, coverage, fileExists>>
    /\ UNCHANGED <<dataVars, pipe>>

\* if threshold is not None: ...
validation_threshold ==
    /\ cmd = "validation" /\ pc = "check"
    /\ IF threshold # None
       THEN IF ThresholdInRange(threshold)
            THEN IF NeedsRetrain(score, threshold)
                 THEN \E ok \in BOOLEAN :
                        /\ callLog' = callLog \o
                              <<Call("echo", "not_good_enough", TRUE),
                                Call("run_makefile", "train", ok)>>
                        /\ Finish(IF ok THEN "ok" ELSE "raised")
                 ELSE callLog' = callLog /\ Finish("ok")
            ELSE /\ callLog' = Append(callLog, Call("echo", "invalid_input", TRUE))
                 /\ Finish("abort")
       ELSE callLog' = callLog /\ Finish("ok")
    /\ UNCHANGED <<cmd, threshold, model, coverage, fileExists, score>>
    /\ UNCHANGED <<dataVars, pipe>>

----------------------------------------------------------------------------
(* test *)

test ==
    /\ cmd = "test" /\ pc = "start"
    /\ \E ok \in BOOLEAN :
         /\ callLog' = Append(callLog,
               Call("run_makefile", IF coverage THEN "test-coverage" ELSE "test", ok))
         /\ Finish(IF ok THEN "ok" ELSE "raised")
    /\ UNCHANGED <<cmd, threshold, model, coverage, fileExists, score>>
    /\ UNCHANGED <<dataVars, pipe>>

----------------------------------------------------------------------------
(* run-sql *)

\* if not os.path.exists(sql_file): echo; raise typer.Exit()
run_sql_file_exists_NoCheck ==
    /\ cmd = "run-sql" /\ pc = "start"
    /\ callLog' = callLog
    /\ pc' = "read" /\ outcome' = outcome
    /\ UNCHANGED <<cmd, threshold, model, coverage, fileExists, score>>
    /\ UNCHANGED <<dataVars, pipe>>

run_sql_file_exists ==
    /\ cmd = "run-sql" /\ pc = "start"
    /\ IF ~fileExists
       THEN /\ callLog' = Append(callLog, Call("echo", "file_not_found", TRUE))
            /\ Finish("exit")
       ELSE /\ callLog' = callLog
            /\ pc' = "read" /\ outcome' = outcome
    /\ UNCHANGED <<cmd, threshold, model, coverage, fileExists, score>>
    /\ UNCHANGED <<dataVars, pipe>>

\* with open(sql_file, "r") as file: sql_query = file.read()
run_sql_file_read ==
    /\ cmd = "run-sql" /\ pc = "read"
    /\ \E ok \in BOOLEAN :
         /\ callLog' = Append(callLog, Call("open", "sql_file", ok))
         /\ IF ok THEN pc' = "manager" /\ outcome' = outcome
                  ELSE Finish("raised")
    /\ UNCHANGED <<cmd, threshold, model, coverage, fileExists, score>>
    /\ UNCHANGED <<dataVars, pipe>>

\* db_manager = PostgreSQLManager()
run_sql_file_manager ==
    /\ cmd = "run-sql" /\ pc = "manager"
    /\ \E ok \in BOOLEAN :
         /\ callLog' = Append(callLog, Call("PostgreSQLManager", "", ok))
         /\ IF ok THEN pc' = "connect" /\ outcome' = outcome
                  ELSE Finish("raised")
    /\ UNCHANGED <<cmd, threshold, model, coverage, fileExists, score>>
    /\ UNCHANGED <<dataVars, pipe>>

\* try: db_manager.connect()
run_sql_file_connect ==
    /\ cmd = "run-sql" /\ pc = "connect"
    /\ \E ok \in BOOLEAN :
         /\ callLog' = Append(callLog, Call("connect", "", ok))
         /\ pc' = IF ok THEN "fetch" ELSE "except"
    /\ UNCHANGED <<cmd, threshold, model, coverage, fileExists, score, outcome>>
    /\ UNCHANGED <<dataVars, pipe>>

\* data = db_manager.fetch_to_dataframe(sql_query)
run_sql_file_fetch ==
    /\ cmd = "run-sql" /\ pc = "fetch"
    /\ \E ok \in BOOLEAN :
         /\ callLog' = Append(callLog, Call("fetch_to_dataframe", "sql_query", ok))
         /\ pc' = IF ok THEN "print" ELSE "except"
    /\ UNCHANGED <<cmd, threshold, model, coverage, fileExists, score, outcome>>
    /\ UNCHANGED <<dataVars, pipe>>

\* typer.echo("Successfully executed ..."); typer.echo(data.to_string())
run_sql_file_print ==
    /\ cmd = "run-sql" /\ pc = "print"
    /\ \E ok \in BOOLEAN :
         /\ callLog' = callLog \o
               <<Call("echo", "success", TRUE), Call("echo", "data", ok)>>
         /\ pc' = IF ok THEN "finally" ELSE "except"
    /\ UNCHANGED <<cmd, threshold, model, coverage, fileExists, score, outcome>>
    /\ UNCHANGED <<dataVars, pipe>>

\* except Exception as e: typer.echo(f"Error executing SQL: {e}")
run_sql_file_except_Silent ==
    /\ cmd = "run-sql" /\ pc = "except"
    /\ callLog' = callLog
    /\ pc' = "finally"
    /\ UNCHANGED <<cmd, threshold, model, coverage, fileExists, score, outcome>>
    /\ UNCHANGED <<dataVars, pipe>>

run_sql_file_except ==
    /\ cmd = "run-sql" /\ pc = "except"
    /\ callLog' = Append(callLog, Call("echo", "error_executing_sql", TRUE))
    /\ pc' = "finally"
    /\ UNCHANGED <<cmd, threshold, model, coverage, fileExists, score, outcome>>
    /\ UNCHANGED <<dataVars, pipe>>

\* finally: db_manager.close()
run_sql_file_finally_NoCloseOnError ==
    /\ cmd = "run-sql" /\ pc = "finally"
    /\ IF \E i \in 1 .. Len(callLog) : callLog[i].arg = "error_executing_sql"
       THEN callLog' = callLog /\ Finish("ok")
       ELSE \E ok \in BOOLEAN :
              /\ callLog' = Append(callLog, Call("close", "", ok))
              /\ Finish(IF ok THEN "ok" ELSE "raised")
    /\ UNCHANGED <<cmd, threshold, model, coverage, fileExists, score>>
    /\ UNCHANGED <<dataVars, pipe>>

run_sql_file_finally ==
    /\ cmd = "run-sql" /\ pc = "finally"
    /\ \E ok \in BOOLEAN :
         /\ callLog' = Append(callLog, Call("close", "", ok))
         /\ Finish(IF ok THEN "ok" ELSE "raised")
    /\ UNCHANGED <<cmd, threshold, model, coverage, fileExists, score>>
    /\ UNCHANGED <<dataVars, pipe>>

----------------------------------------------------------------------------
NoData == [kind |-> "none"]

InitCli ==
    /\ cmd \in Commands
    /\ pc = "start"
    /\ threshold \in (IF cmd \in {"train", "validation"} THEN Thresholds ELSE {None})
    /\ model \in (IF cmd = "train" THEN ModelLists ELSE {<<>>})
    /\ coverage \in (IF cmd = "test" THEN BOOLEAN ELSE {FALSE})
    /\ fileExists \in (IF cmd = "run-sql" THEN BOOLEAN ELSE {FALSE})
    /\ score = None
    /\ callLog = <<>>
    /\ outcome = "running"

Init ==
    /\ InitCli
    /\ heap = <<>> /\ given = NoData /\ ret = NoData
    /\ pipe = NoData

Next ==
    \/ train
    \/ validation_validate
    \/ validation_threshold
    \/ test
    \/ run_sql_file_exists
    \/ run_sql_file_read
    \/ run_sql_file_manager
    \/ run_sql_file_connect
    \/ run_sql_file_fetch
    \/ run_sql_file_print
    \/ run_sql_file_except
    \/ run_sql_file_finally

Spec == Init /\ [][Next]_vars

----------------------------------------------------------------------------
(* pandas DataFrames.  A DataFrame is [columns: ordered column names,      *)
(* data: column name -> sequence of cell values]; DataFrame objects live   *)
(* in heap and are passed by reference, so copy() and inplace=True differ. *)

RequiredColumns == {"Cabin", "PassengerId", "Name", "Ticket", "SibSp", "Parch"}
AllColumns == RequiredColumns \cup {"Survived", "FamilySize", "IsAlone"}
ColumnOrder == <<"PassengerId", "Survived", "Name", "SibSp", "Parch", "Ticket",
                 "Cabin", "FamilySize", "IsAlone">>
Counts == 0 .. MaxCount

ColSet(df) == {df.columns[i] : i \in 1 .. Len(df.columns)}
NRows(df) == IF df.columns = <<>> THEN 0 ELSE Len(df.data[df.columns[1]])

\* pd.DataFrame / pd.read_csv result with the given columns; cells other than
\* SibSp and Parch hold the row number, stale FamilySize/IsAlone cells hold -1
MakeFrame(present, n, sibsp, parch) ==
    [columns |-> SelectSeq(ColumnOrder, LAMBDA c : c \in present),
     data |-> [c \in present |->
                 CASE c = "SibSp" -> sibsp
                   [] c = "Parch" -> parch
                   [] c \in {"FamilySize", "IsAlone"} -> [i \in 1 .. n |-> -1]
                   [] OTHER -> [i \in 1 .. n |-> i]]]

\* DataFrame.copy(): a new object with the same contents
DataFrame_copy_Alias(h, r) == [heap |-> h, ref |-> r]
DataFrame_copy(h, r) == [heap |-> Append(h, h[r]), ref |-> Len(h) + 1]

\* DataFrame.drop(labels, axis=1): KeyError unless every label is a column
DataFrame_drop_raises(df, labels) == ~(labels \subseteq ColSet(df))

DataFrame_drop(df, labels) ==
    [columns |-> SelectSeq(df.columns, LAMBDA c : c \notin labels),
     data |-> [c \in ColSet(df) \ labels |-> df.data[c]]]

\* df[name] = values: replaces the column in place, or appends a new one
DataFrame_setitem(df, name, values) ==
    [columns |-> IF name \in ColSet(df) THEN df.columns
                 ELSE Append(df.columns, name),
     data |-> [c \in ColSet(df) \cup {name} |->
                 IF c = name THEN values ELSE df.data[c]]]

\* Series + Series, elementwise
Series_add(a, b) == [i \in 1 .. Len(a) |-> a[i] + b[i]]

\* titanic_data["FamilySize"] == 0
IsAloneMask_SibSpOnly(df) == [i \in 1 .. NRows(df) |-> df.data["SibSp"][i] = 0]
IsAloneMask(df) == [i \in 1 .. NRows(df) |-> df.data["FamilySize"][i] = 0]

\* df.loc[mask, name] = value
DataFrame_loc_set(df, mask, name, value) ==
    [df EXCEPT !.data[name] =
        [i \in 1 .. Len(@) |-> IF mask[i] THEN value ELSE @[i]]]

KeyError(h) == [raised |-> TRUE, heap |-> h]
Return(h, v) == [raised |-> FALSE, heap |-> h, value |-> v]

DropLabels == {"Cabin", "PassengerId", "Name", "Ticket"}

\* preprocess_features(data): heap h, data the reference of the argument
preprocess_features(h, data) ==
    LET c == DataFrame_copy(h, data)
        titanic_data == c.ref
        h1 == c.heap
    IN  IF DataFrame_drop_raises(h1[titanic_data], DropLabels)
        THEN KeyError(h1)
        ELSE
        LET h2 == [h1 EXCEPT ![titanic_data] = DataFrame_drop(@, DropLabels)]
        IN  IF ~({"SibSp", "Parch"} \subseteq ColSet(h2[titanic_data]))
            THEN KeyError(h2)
            ELSE
            LET h3 == [h2 EXCEPT ![titanic_data] =
                         DataFrame_setitem(@, "FamilySize",
                             Series_add(@.data["SibSp"], @.data["Parch"]))]
                h4 == [h3 EXCEPT ![titanic_data] =
                         DataFrame_setitem(@, "IsAlone",
                             [i \in 1 .. NRows(@) |-> 0])]
                h5 == [h4 EXCEPT ![titanic_data] =
                         DataFrame_loc_set(@, IsAloneMask(@), "IsAlone", 1)]
            IN  Return(h5, titanic_data)

\* preprocess_data(data, target_column) -> (X, y)
preprocess_data(h, data, target_column) ==
    LET f == preprocess_features(h, data)
    IN  IF f.raised THEN f
        ELSE
        LET titanic_data == f.value
        IN  IF DataFrame_drop_raises(f.heap[titanic_data], {target_column})
            THEN KeyError(f.heap)
            ELSE
            LET hX == Append(f.heap,
                        DataFrame_drop(f.heap[titanic_data], {target_column}))
            IN  Return(hX, [X |-> Len(hX),
                            y |-> hX[titanic_data].data[target_column]])

\* load_data(path): df = pd.read_csv(path) is the frame at reference df
load_data(h, df) == preprocess_data(h, df, "Survived")

TargetColumns == {"Survived", "FamilySize"}

Result(fn, r) ==
    IF r.raised THEN [kind |-> "raised", fn |-> fn]
    ELSE [kind |-> "returned", fn |-> fn, value |-> r.value]

do_preprocess_features ==
    /\ ret = NoData
    /\ LET r == preprocess_features(heap, 1)
       IN  heap' = r.heap /\ ret' = Result("preprocess_features", r)
    /\ UNCHANGED <<cliVars, given, pipe>>

do_preprocess_data ==
    /\ ret = NoData
    /\ \E target_column \in TargetColumns :
         LET r == preprocess_data(heap, 1, target_column)
         IN  heap' = r.heap /\ ret' = Result("preprocess_data", r)
    /\ UNCHANGED <<cliVars, given, pipe>>

do_load_data ==
    /\ ret = NoData
    /\ LET r == load_data(heap, 1)
       IN  heap' = r.heap /\ ret' = Result("load_data", r)
    /\ UNCHANGED <<cliVars, given, pipe>>

IdleCli ==
    /\ cmd = "none" /\ pc = "done" /\ threshold = None /\ model = <<>>
    /\ coverage = FALSE /\ fileExists = FALSE /\ score = None
    /\ callLog = <<>> /\ outcome = "ok"

InitData ==
    /\ IdleCli
    /\ pipe = NoData
    /\ ret = NoData
    /\ \E present \in SUBSET AllColumns, n \in 0 .. MaxRows :
         \E sibsp \in (IF "SibSp" \in present THEN [1 .. n -> Counts] ELSE {<<>>}),
            parch \in (IF "Parch" \in present THEN [1 .. n -> Counts] ELSE {<<>>}) :
           /\ given = MakeFrame(present, n, sibsp, parch)
           /\ heap = <<given>>

NextData ==
    \/ do_preprocess_features
    \/ do_preprocess_data
    \/ do_load_data

SpecData == InitData /\ [][NextData]_vars

----------------------------------------------------------------------------
(* PipelineBuilding helpers (src.ml_pipelines.pipeline_connection), as the  *)
(* tests call them.                                                        *)

CatColumns == {"CategoricalFeature1", "CategoricalFeature2"}
Categories == {"A", "B", "C"}
Estimators == {"DummyClassifier_1", "DummyClassifier_2"}
Processing == {"Pipeline([])", "Pipeline([imputer])"}

\* number of distinct values observed in a column
Observed(data, col) == {data[col][i] : i \in 1 .. Len(data[col])}

\* <column><category-index> for index 0 .. k-1
CategoryNames_FromOne(col, k) == [j \in 1 .. k |-> col \o ToString(j)]
CategoryNames(col, k) == [j \in 1 .. k |-> col \o ToString(j - 1)]

RECURSIVE _columns_after_processing(_, _)
_columns_after_processing(data, categorical_features) ==
    IF categorical_features = <<>> THEN <<>>
    ELSE CategoryNames(Head(categorical_features),
                       Cardinality(Observed(data, Head(categorical_features))))
         \o _columns_after_processing(data, Tail(categorical_features))

\* Pipeline([processing stage, estimator])
ModelPipeline_EstimatorOnly(pipeline, estimator) == <<estimator>>
ModelPipeline(pipeline, estimator) == <<pipeline, estimator>>

\* {entry["name"]: Pipeline(...) for entry in self.models}; a repeated name
\* keeps the last entry
_build_create_model_pipeline(models, pipeline) ==
    [name \in {models[i].name : i \in 1 .. Len(models)} |->
        LET last == CHOOSE i \in 1 .. Len(models) :
                       /\ models[i].name = name
                       /\ \A j \in i + 1 .. Len(models) : models[j].name # name
        IN  ModelPipeline(pipeline, models[last].model)]

do_columns_after_processing ==
    /\ pipe.kind = "input" /\ pipe.fn = "_columns_after_processing"
    /\ pipe' = [pipe EXCEPT !.kind = "returned",
                  !.result = _columns_after_processing(pipe.data,
                                                       pipe.categorical_features)]
    /\ UNCHANGED <<cliVars, dataVars>>

do_build_create_model_pipeline ==
    /\ pipe.kind = "input" /\ pipe.fn = "_build_create_model_pipeline"
    /\ pipe' = [pipe EXCEPT !.kind = "returned",
                  !.result = _build_create_model_pipeline(pipe.models,
                                                          pipe.pipeline)]
    /\ UNCHANGED <<cliVars, dataVars>>

SampleFrames ==
    UNION {[CatColumns -> [1 .. n -> Categories]] : n \in 0 .. MaxCatRows}
FeatureLists == UNION {[1 .. n -> CatColumns] : n \in 0 .. MaxFeatures}
Registries ==
    UNION {[1 .. n -> [name : ModelType, model : Estimators]] : n \in 0 .. MaxModels}

InitPipeline ==
    /\ IdleCli
    /\ heap = <<>> /\ given = NoData /\ ret = NoData
    /\ \/ \E d \in SampleFrames, f \in FeatureLists :
            pipe = [kind |-> "input", fn |-> "_columns_after_processing",
                    data |-> d, categorical_features |-> f, result |-> <<>>]
       \/ \E m \in Registries, p \in Processing :
            pipe = [kind |-> "input", fn |-> "_build_create_model_pipeline",
                    models |-> m, pipeline |-> p, result |-> <<>>]

NextPipeline ==
    \/ do_columns_after_processing
    \/ do_build_create_model_pipeline

SpecPipeline == InitPipeline /\ [][NextPipeline]_vars

----------------------------------------------------------------------------
(* Properties of the PipelineBuilding helpers *)

\* number of categories observed in the p-th listed column
NumObserved(p) ==
    Cardinality(Observed(pipe.data, pipe.categorical_features[p]))

\* number of output columns produced by the listed columns before the p-th
RECURSIVE Offset(_)
Offset(p) == IF p <= 1 THEN 0 ELSE Offset(p - 1) + NumObserved(p - 1)

\* C8: _columns_after_processing returns, for the listed columns in list
\* order, one name per observed category of the column, <column><index> with
\* index 0..k-1 in increasing order, and nothing else (3 + 3 observed
\* categories give 6 names).
C8_ColumnsAfterProcessing ==
    (pipe.kind = "returned" /\ pipe.fn = "_columns_after_processing") =>
        LET n == Len(pipe.categorical_features)
        IN  /\ Len(pipe.result) = Offset(n + 1)
            /\ \A p \in 1 .. n : \A t \in 0 .. NumObserved(p) - 1 :
                  pipe.result[Offset(p) + t + 1] =
                      pipe.categorical_features[p] \o ToString(t)

C8_Witness ==
    /\ pipe.kind = "returned" /\ pipe.fn = "_columns_after_processing"
    /\ pipe.categorical_features = <<"CategoricalFeature1", "CategoricalFeature2">>
    /\ pipe.data["CategoricalFeature1"] = <<"A", "B", "C">>
    /\ pipe.result = <<"CategoricalFeature10", "CategoricalFeature11",
                       "CategoricalFeature12", "CategoricalFeature20",
                       "CategoricalFeature21", "CategoricalFeature22">>

DistinctNames(models) ==
    \A i, j \in 1 .. Len(models) : models[i].name = models[j].name => i = j

\* C9: for a registry with distinct names, _build_create_model_pipeline
\* returns a mapping whose keys are exactly the registry names (as many as
\* entries), each value the Pipeline of the shared processing stage followed
\* by that entry's estimator.
C9_BuildCreateModelPipeline ==
    (/\ pipe.kind = "returned" /\ pipe.fn = "_build_create_model_pipeline"
     /\ DistinctNames(pipe.models)) =>
        /\ DOMAIN pipe.result = {pipe.models[i].name : i \in 1 .. Len(pipe.models)}
        /\ Cardinality(DOMAIN pipe.result) = Len(pipe.models)
        /\ \A i \in 1 .. Len(pipe.models) :
              pipe.result[pipe.models[i].name] =
                  <<pipe.pipeline, pipe.models[i].model>>

C9_Witness ==
    /\ pipe.kind = "returned" /\ pipe.fn = "_build_create_model_pipeline"
    /\ Len(pipe.models) = 2 /\ DistinctNames(pipe.models)
    /\ DOMAIN pipe.result = {"random_forest", "logistic_regression"}

----------------------------------------------------------------------------
(* Properties of the data functions *)

HasRequiredColumns == RequiredColumns \subseteq ColSet(given)
Derived == {"FamilySize", "IsAlone"}

\* the frame returned by preprocess_features, compared with the input:
\* same number of rows, the four dropped columns absent, the columns in
\* `kept` present with the same cells in the same row order, FamilySize =
\* SibSp + Parch and IsAlone = 1 exactly where FamilySize = 0, row by row
FeaturesContract(out, kept) ==
    /\ NRows(out) = NRows(given)
    /\ ColSet(out) \cap DropLabels = {}
    /\ \A c \in kept : c \in ColSet(out) /\ out.data[c] = given.data[c]
    /\ {"FamilySize", "IsAlone"} \subseteq ColSet(out)
    /\ \A i \in 1 .. NRows(given) :
          /\ out.data["FamilySize"][i] =
                given.data["SibSp"][i] + given.data["Parch"][i]
          /\ out.data["IsAlone"][i] =
                (IF out.data["FamilySize"][i] = 0 THEN 1 ELSE 0)

\* C6 as stated: for every input with the six required columns,
\* preprocess_features returns the same rows without Cabin, PassengerId, Name
\* and Ticket, EVERY other input column unchanged, FamilySize = SibSp + Parch
\* and IsAlone = 1 exactly where FamilySize = 0.
C6_AsStated ==
    (HasRequiredColumns /\ ret # NoData /\ ret.fn = "preprocess_features") =>
        /\ ret.kind = "returned"
        /\ FeaturesContract(heap[ret.value], ColSet(given) \ DropLabels)

\* C6 amended: as above, but an input column that is itself named FamilySize
\* or IsAlone is not kept: it is overwritten by the derived values.
C6_PreprocessFeatures ==
    (HasRequiredColumns /\ ret # NoData /\ ret.fn = "preprocess_features") =>
        /\ ret.kind = "returned"
        /\ FeaturesContract(heap[ret.value],
                            (ColSet(given) \ DropLabels) \ Derived)

C6_Witness ==
    /\ HasRequiredColumns /\ {"Survived", "FamilySize"} \subseteq ColSet(given)
    /\ ret # NoData /\ ret.fn = "preprocess_features" /\ ret.kind = "returned"
    /\ NRows(given) = MaxRows
    /\ \E i, j \in 1 .. MaxRows :
          /\ heap[ret.value].data["IsAlone"][i] = 1
          /\ heap[ret.value].data["IsAlone"][j] = 0

\* C7: when the input lacks one of Cabin, PassengerId, Name, Ticket, SibSp,
\* Parch, preprocess_features raises and returns no table, so preprocess_data
\* and load_data raise too, and the caller's table is left as it was.
C7_MissingColumnsRaise ==
    ~HasRequiredColumns =>
        /\ ret # NoData => ret.kind = "raised"
        /\ heap[1] = given

C7_Witness ==
    /\ ret # NoData /\ ret.kind = "raised" /\ ret.fn = "load_data"
    /\ RequiredColumns \ ColSet(given) = {"Parch"}
    /\ NRows(given) = MaxRows

----------------------------------------------------------------------------
(* Properties of the CLI commands *)

Made(op) == {i \in 1 .. Len(callLog) : callLog[i].op = op}
MadeWith(op, arg) == {i \in Made(op) : callLog[i].arg = arg}
Returned(op) == {i \in Made(op) : callLog[i].ok}
Raised(op) == {i \in Made(op) : ~callLog[i].ok}

\* the option was supplied and is a number below 0 or above 1
ThresholdOutside ==
    threshold.kind = "num" /\ (threshold.val < 0 \/ threshold.val > Unit)

\* C1: train with a supplied threshold outside [0,1] echoes the
\* invalid-input message and aborts, and train_model.train is never called,
\* whatever the model list.
C1_TrainInvalidThresholdAborts ==
    (cmd = "train" /\ ThresholdOutside) =>
        /\ Made("train") = {}
        /\ pc = "done" =>
              /\ outcome = "abort"
              /\ MadeWith("echo", "invalid_input") # {}

C1_Witness ==
    /\ cmd = "train" /\ pc = "done" /\ outcome = "abort"
    /\ threshold = Num(Unit + 1) /\ Len(model) = MaxModels

\* C2: validation with a supplied threshold outside [0,1] aborts with the
\* invalid-input message without validating: validate() is never called and
\* run_makefile("train") is never called.
C2_ValidationInvalidThresholdAbortsWithoutValidating ==
    (cmd = "validation" /\ ThresholdOutside) =>
        /\ Made("validate") = {}
        /\ MadeWith("run_makefile", "train") = {}
        /\ pc = "done" =>
              /\ outcome = "abort"
              /\ MadeWith("echo", "invalid_input") # {}

\* C3: in run-sql, once the PostgreSQLManager has been created, close() is
\* called exactly once before the command ends, on every path (connect,
\* fetch or printing raising or not); close() is never called before
\* connect() has been attempted, and never twice.
C3_RunSqlAlwaysClosesOnce ==
    cmd = "run-sql" =>
        /\ Cardinality(Made("close")) <= 1
        /\ \A i \in Made("close") : \E j \in Made("connect") : j < i
        /\ (pc = "done" /\ Returned("PostgreSQLManager") # {}) =>
              Cardinality(Made("close")) = 1

C3_Witness ==
    /\ cmd = "run-sql" /\ pc = "done"
    /\ Raised("connect") # {}
    /\ Cardinality(Made("close")) = 1

\* C4: in run-sql, when connect() or fetch_to_dataframe() raises, the
\* command echoes the "Error executing SQL" message, never the success
\* message, and that exception does not reach the caller (the only exception
\* that can leave the command after the manager exists is one raised by
\* close() itself); the success message is echoed only after both connect()
\* and fetch_to_dataframe() returned; fetch_to_dataframe() is never called
\* after connect() raised.
C4_RunSqlFailuresCaughtAndReported ==
    cmd = "run-sql" =>
        /\ (pc = "done" /\ Raised("connect") \cup Raised("fetch_to_dataframe") # {}) =>
              /\ MadeWith("echo", "error_executing_sql") # {}
              /\ MadeWith("echo", "success") = {}
              /\ outcome \in {"ok", "raised"}
              /\ outcome = "raised" => ~callLog[Len(callLog)].ok
                                       /\ callLog[Len(callLog)].op = "close"
        /\ \A i \in MadeWith("echo", "success") :
              /\ \E j \in Returned("connect") : j < i
              /\ \E j \in Returned("fetch_to_dataframe") : j < i
              /\ Raised("connect") \cup Raised("fetch_to_dataframe") = {}
        /\ \A i \in Made("fetch_to_dataframe") :
              ~ \E j \in Raised("connect") : j < i

C4_Witness ==
    /\ cmd = "run-sql" /\ pc = "done" /\ outcome = "ok"
    /\ Raised("fetch_to_dataframe") # {}
    /\ MadeWith("echo", "error_executing_sql") # {}

\* C5: in run-sql, when the SQL file does not exist the command ends with
\* the file-not-found message and does nothing else: no open, no
\* PostgreSQLManager, no connect/fetch/close.
C5_RunSqlMissingFile ==
    (cmd = "run-sql" /\ ~fileExists) =>
        /\ \A i \in 1 .. Len(callLog) :
              callLog[i].op \notin {"open", "PostgreSQLManager", "connect",
                                    "fetch_to_dataframe", "close"}
        /\ pc = "done" =>
              /\ outcome = "exit"
              /\ callLog = <<Call("echo", "file_not_found", TRUE)>>

C5_Witness ==
    /\ cmd = "run-sql" /\ ~fileExists /\ pc = "done" /\ outcome = "exit"

\* C10: in validation, run_makefile("train") is called iff a threshold is
\* supplied, 0 <= threshold <= 1 and the score returned by validate() is
\* strictly below the threshold; at most once, and only after validate()
\* returned.
C10_ShouldRetrain ==
    /\ threshold.kind = "num" /\ 0 <= threshold.val /\ threshold.val <= Unit
    /\ score.kind = "num" /\ score.val < threshold.val

C10_RetrainIffBelowThreshold ==
    cmd = "validation" =>
        /\ Cardinality(MadeWith("run_makefile", "train")) <= 1
        /\ \A i \in MadeWith("run_makefile", "train") :
              /\ \E j \in Returned("validate") : j < i
              /\ C10_ShouldRetrain
        /\ (pc = "done" /\ Returned("validate") # {} /\ C10_ShouldRetrain) =>
              MadeWith("run_makefile", "train") # {}

C10_Witness ==
    /\ cmd = "validation" /\ pc = "done"
    /\ MadeWith("run_makefile", "train") # {}
    /\ threshold = Num(Unit) /\ score = Num(Unit - 1)

====
